---- MODULE Spec2Model ----
(***************************************************************************)
(* Model of src/main.py: the three super-resolution procedures             *)
(* srcnn_predict, vdsr_predict, edsr_predict and the SuperResolutionApp    *)
(* callbacks that dispatch to them.                                        *)
(*                                                                         *)
(* Numbers.  Floating point values are fixed point integers in units of    *)
(* 1/ONE (one millionth).  An image is a record [h, w, px]: its shape and  *)
(* the colour of a uniform image of that shape (three channel values); a   *)
(* plane is a record [h, w, v].  Cubic interpolation has weights that sum  *)
(* to one, so resizing a uniform plane changes its shape and keeps its     *)
(* value.  None (cv2.imread of an unreadable file) is the image of shape   *)
(* 0 x 0.                                                                  *)
(***************************************************************************)
EXTENDS Integers, Sequences, FiniteSets, TLC

\* ------------------------------------------------------------------ bounds
MaxDim == 2
MaxFactor == 2
ShapeSlack == 1
RTGrid == 8

\* ------------------------------------------------------- program constants
DefaultFactor == 2
MODELS == {"srcnn", "edsr", "vdsr", "srgan"}
PLACEHOLDER == "Choose a model"

ONE == 1000 * 1000
HALF == ONE \div 2

\* ------------------------------------------------------------ environment
Paths == {"photo.png", "broken.png"}
NoPath == ""
PixelLevels == {0, 255}
Colors == {<<b, g, r>> : b \in PixelLevels, g \in PixelLevels, r \in PixelLevels}
NoPx == <<0, 0, 0>>
NoImage == [h |-> 0, w |-> 0, px |-> NoPx]
NoPlane == [h |-> 0, w |-> 0, v |-> 0]
NoShape == [h |-> 0, w |-> 0]
Shape(a) == [h |-> a.h, w |-> a.w]
\* the values a backend may produce for the luma plane, some outside [0,1]
BackendValues == {0 - ONE \div 4, 0, HALF, ONE, ONE + ONE \div 4}
\* the sizes a backend may return along one axis, given the size n it was fed
BackendSizes(n, f) ==
    {k \in 1..(n + ShapeSlack) : k >= n - ShapeSlack} \cup {n * f}

\* ------------------------------------------------------------- pure parts
Clip(x, lo, hi) == IF x < lo THEN lo ELSE IF x > hi THEN hi ELSE x

\* full_image.astype(np.float32) / 255.0
Normalize(px) == [i \in 1..3 |-> (px[i] * ONE) \div 255]

\* cv2.cvtColor(float_img, cv2.COLOR_BGR2YCrCb) on one pixel <<b, g, r>>
toLumaChroma(x) ==
    LET yv == (299 * x[3] + 587 * x[2] + 114 * x[1]) \div 1000
    IN  <<yv, ((x[3] - yv) * 713) \div 1000 + HALF,
              ((x[1] - yv) * 564) \div 1000 + HALF>>

\* cv2.cvtColor(HR_image_YCrCb, cv2.COLOR_YCrCb2BGR) on one pixel <<y, cr, cb>>
fromLumaChroma_swapped(p) ==
    << p[1] + (1773 * (p[2] - HALF)) \div 1000,
       p[1] - (714 * (p[3] - HALF) + 344 * (p[2] - HALF)) \div 1000,
       p[1] + (1403 * (p[3] - HALF)) \div 1000 >>

fromLumaChroma(p) ==
    << p[1] + (1773 * (p[3] - HALF)) \div 1000,
       p[1] - (714 * (p[2] - HALF) + 344 * (p[3] - HALF)) \div 1000,
       p[1] + (1403 * (p[2] - HALF)) \div 1000 >>

\* .astype(np.uint8): truncation, then the low 8 bits
astype_uint8(x) == (x \div ONE) % 256

\* (HR_image * 255.0).clip(0, 255).astype(np.uint8) on one channel value
to_display_noclip(v) == astype_uint8(v * 255)

to_display(v) == astype_uint8(Clip(v * 255, 0, 255 * ONE))

\* cv2.resize(plane, None, fx=f, fy=f, interpolation=cv2.INTER_CUBIC)
resize_by_factor_add(plane, fx, fy) ==
    [h |-> plane.h + fy, w |-> plane.w + fx, v |-> plane.v]

resize_by_factor(plane, fx, fy) ==
    [h |-> plane.h * fy, w |-> plane.w * fx, v |-> plane.v]

\* cv2.resize(plane, dsize, interpolation=cv2.INTER_CUBIC); dsize = <<width, height>>
resize_to(plane, dsize) ==
    [h |-> dsize[2], w |-> dsize[1], v |-> plane.v]

\* channel c of imgYCbCr as a plane: imgYCbCr[:, :, c - 1]
Channel(img, c) == [h |-> img.h, w |-> img.w, v |-> img.px[c]]

\* the file system: cv2.imread(path) returns the image stored there, or None
imread_blank(fs, path) ==
    IF fs[path].h = 0 THEN [h |-> 1, w |-> 1, px |-> NoPx] ELSE fs[path]

imread(fs, path) == fs[path]

\* ---------------------------------------------------- strategy differences
STRATEGIES == {"srcnn", "vdsr", "edsr"}
PreUpscaledLuma == {"srcnn", "vdsr"}
NativeLuma == {"edsr"}

\* tf.keras.models.load_model(<path>): the artifact each procedure loads
ModelPath(f) ==
    CASE f = "srcnn" -> "srcnn_model_2x.tf"
      [] f = "vdsr" -> "vdsr_model.tf"
      [] f = "edsr" -> "edsr_model.tf"

\* the luma plane fed to the backend (LR_input_)
prepareLuma_native(f, imgY, width, height, factor) ==
    IF f = "edsr" THEN imgY ELSE resize_by_factor(imgY, factor, factor)

prepareLuma(f, imgY, width, height, factor) ==
    IF f = "edsr"
    THEN resize_to(imgY, <<width * factor, height * factor>>)
    ELSE resize_by_factor(imgY, factor, factor)

\* what becomes of the backend's output before it is concatenated
clip_luma_none(f, Yp) == Yp

clip_luma(f, Yp) ==
    IF f = "edsr" THEN [Yp EXCEPT !.v = Clip(Yp.v, 0, ONE)] ELSE Yp

\* the resampled chroma plane (Cr or Cb)
chroma_plane_swapped(f, plane, Yp, factor) ==
    IF f = "edsr"
    THEN resize_to(plane, <<Yp.h, Yp.w>>)
    ELSE resize_by_factor(plane, factor, factor)

chroma_plane(f, plane, Yp, factor) ==
    IF f = "edsr"
    THEN resize_to(plane, <<Yp.w, Yp.h>>)
    ELSE resize_by_factor(plane, factor, factor)

\* np.concatenate((Y, Cr, Cb), axis=2) raises ValueError unless the planes
\* agree in height and width
concatenate_ok_height(Yp, CrP, CbP) == Yp.h = CrP.h /\ Yp.h = CbP.h

concatenate_ok(Yp, CrP, CbP) == Shape(Yp) = Shape(CrP) /\ Shape(Yp) = Shape(CbP)

\* upscale_image's if/elif chain: the procedure a selector value dispatches to
Dispatch_fallback(sel) ==
    IF sel = "edsr" THEN "edsr" ELSE IF sel = "vdsr" THEN "vdsr" ELSE "srcnn"

Dispatch(sel) ==
    IF sel = "srcnn" THEN "srcnn"
    ELSE IF sel = "edsr" THEN "edsr"
    ELSE IF sel = "vdsr" THEN "vdsr"
    ELSE "none"

\* ------------------------------------------------------------------ state
VARIABLES
    disk,            \* the file system: path -> image (NoImage: unreadable)
    image_path,      \* SuperResolutionApp.image_path (NoPath: None)
    selector,        \* model_selector.get()
    figure,          \* what the figure holds: shapes of the two subplots
    event,           \* the callback that ran last
    pc,              \* position of the running predict procedure
    fn,              \* the procedure called last
    path_arg,        \* its image_path argument
    upscale_factor,  \* its upscale_factor argument
    model,           \* the loaded backend
    full_image,
    imgYCbCr,
    LR_input_,
    predicted,       \* model.predict(...)[0] as the backend returned it
    Y,
    Cr,
    Cb,
    HR_image_YCrCb,
    HR_image_f,      \* HR_image after cvtColor, before scaling
    HR_image,
    error,           \* the failure reported last
    result,          \* the pair returned last
    rt_pc,           \* colour round trip: position
    rt_x,            \* colour round trip: the normalized pixel
    rt_planes,
    rt_back

gui == <<image_path, selector, figure, event>>
call == <<fn, path_arg, upscale_factor>>
locals == <<model, full_image, imgYCbCr, LR_input_, predicted, Y, Cr, Cb,
            HR_image_YCrCb, HR_image_f, HR_image>>
rt == <<rt_pc, rt_x, rt_planes, rt_back>>
vars == <<disk, gui, pc, call, locals, error, result, rt>>

NoResult == [original |-> NoImage, upscaled |-> NoImage]
EmptyFigure == [low |-> NoShape, high |-> NoShape]

Images == {[h |-> a, w |-> b, px |-> c] : a \in 1..MaxDim, b \in 1..MaxDim, c \in Colors}

ClearLocals ==
    /\ model' = "none"
    /\ full_image' = NoImage
    /\ imgYCbCr' = NoImage
    /\ LR_input_' = NoPlane
    /\ predicted' = NoPlane
    /\ Y' = NoPlane
    /\ Cr' = NoPlane
    /\ Cb' = NoPlane
    /\ HR_image_YCrCb' = NoImage
    /\ HR_image_f' = NoImage
    /\ HR_image' = NoImage

InitPipeline ==
    /\ pc = "Idle"
    /\ fn = "none"
    /\ path_arg = NoPath
    /\ upscale_factor = DefaultFactor
    /\ model = "none"
    /\ full_image = NoImage
    /\ imgYCbCr = NoImage
    /\ LR_input_ = NoPlane
    /\ predicted = NoPlane
    /\ Y = NoPlane
    /\ Cr = NoPlane
    /\ Cb = NoPlane
    /\ HR_image_YCrCb = NoImage
    /\ HR_image_f = NoImage
    /\ HR_image = NoImage
    /\ error = "none"
    /\ result = NoResult

\* SuperResolutionApp.__init__
InitGui ==
    /\ image_path = NoPath
    /\ selector = PLACEHOLDER
    /\ figure = EmptyFigure
    /\ event = "none"

InitDisk ==
    \E img \in Images :
        disk = [p \in Paths |-> IF p = "photo.png" THEN img ELSE NoImage]

InitRt ==
    /\ rt_pc = "off"
    /\ rt_x = NoPx
    /\ rt_planes = NoPx
    /\ rt_back = NoPx

Init == InitDisk /\ InitGui /\ InitPipeline /\ InitRt

\* ------------------------------------------- the predict procedures, by step
\* entry into srcnn_predict / vdsr_predict / edsr_predict
Enter(f, p, k) ==
    /\ pc = "Idle"
    /\ pc' = "Called"
    /\ fn' = f
    /\ path_arg' = p
    /\ upscale_factor' = k
    /\ error' = "none"
    /\ result' = NoResult
    /\ UNCHANGED <<disk, locals, rt>>

\* tf.keras.models.load_model(...): the first statement of each procedure
load_model ==
    /\ pc = "Called"
    /\ \/ /\ model' = ModelPath(fn)
          /\ pc' = "ModelLoaded"
          /\ UNCHANGED error
       \/ /\ pc' = "Failed"
          /\ error' = "BackendUnavailable"
          /\ UNCHANGED model
    /\ UNCHANGED <<disk, gui, call, result, rt, full_image, imgYCbCr, LR_input_,
                   predicted, Y, Cr, Cb, HR_image_YCrCb, HR_image_f, HR_image>>

\* a variant that reads the image without waiting for load_model
cv2_imread_first ==
    /\ pc \in {"Called", "ModelLoaded"}
    /\ LET img == imread(disk, path_arg)
       IN  /\ full_image' = img
           /\ IF img.h = 0
              THEN pc' = "Failed" /\ error' = "DecodeError"
              ELSE pc' = "Decoded" /\ UNCHANGED error
    /\ UNCHANGED <<disk, gui, call, result, rt, model, imgYCbCr, LR_input_,
                   predicted, Y, Cr, Cb, HR_image_YCrCb, HR_image_f, HR_image>>

\* full_image = cv2.imread(image_path, ...); a None result fails at the first
\* use of full_image (.astype, or .shape in edsr_predict)
cv2_imread ==
    /\ pc = "ModelLoaded"
    /\ LET img == imread(disk, path_arg)
       IN  /\ full_image' = img
           /\ IF img.h = 0
              THEN pc' = "Failed" /\ error' = "DecodeError"
              ELSE pc' = "Decoded" /\ UNCHANGED error
    /\ UNCHANGED <<disk, gui, call, result, rt, model, imgYCbCr, LR_input_,
                   predicted, Y, Cr, Cb, HR_image_YCrCb, HR_image_f, HR_image>>

\* float_img = full_image.astype(np.float32) / 255.0; imgYCbCr = cvtColor(...)
decompose ==
    /\ pc = "Decoded"
    /\ imgYCbCr' = [h |-> full_image.h, w |-> full_image.w,
                    px |-> toLumaChroma(Normalize(full_image.px))]
    /\ pc' = "Decomposed"
    /\ UNCHANGED <<disk, gui, call, result, rt, error, model, full_image, LR_input_,
                   predicted, Y, Cr, Cb, HR_image_YCrCb, HR_image_f, HR_image>>

\* imgY = resize(...); LR_input_ = imgY.reshape(1, h, w, 1)
prepare_luma ==
    /\ pc = "Decomposed"
    /\ LR_input_' = prepareLuma(fn, Channel(imgYCbCr, 1), full_image.w,
                                full_image.h, upscale_factor)
    /\ pc' = "LumaPrepared"
    /\ UNCHANGED <<disk, gui, call, result, rt, error, model, full_image, imgYCbCr,
                   predicted, Y, Cr, Cb, HR_image_YCrCb, HR_image_f, HR_image>>

\* Y = model.predict([LR_input_])[0]  (and Y = Y.clip(0, 1) in edsr_predict)
predict ==
    /\ pc = "LumaPrepared"
    /\ \E hh \in BackendSizes(LR_input_.h, upscale_factor),
          ww \in BackendSizes(LR_input_.w, upscale_factor),
          v \in BackendValues :
          /\ predicted' = [h |-> hh, w |-> ww, v |-> v]
          /\ Y' = clip_luma(fn, [h |-> hh, w |-> ww, v |-> v])
    /\ pc' = "Inferred"
    /\ UNCHANGED <<disk, gui, call, result, rt, error, model, full_image, imgYCbCr,
                   LR_input_, Cr, Cb, HR_image_YCrCb, HR_image_f, HR_image>>

\* Cr = ...; Cb = ...; HR_image_YCrCb = np.concatenate(...);
\* HR_image = cv2.cvtColor(HR_image_YCrCb, cv2.COLOR_YCrCb2BGR)
recompose ==
    /\ pc = "Inferred"
    /\ LET cr == chroma_plane(fn, Channel(imgYCbCr, 2), Y, upscale_factor)
           cb == chroma_plane(fn, Channel(imgYCbCr, 3), Y, upscale_factor)
       IN  /\ Cr' = cr
           /\ Cb' = cb
           /\ IF concatenate_ok(Y, cr, cb)
              THEN /\ HR_image_YCrCb' = [h |-> Y.h, w |-> Y.w, px |-> <<Y.v, cr.v, cb.v>>]
                   /\ HR_image_f' = [h |-> Y.h, w |-> Y.w,
                                     px |-> fromLumaChroma(<<Y.v, cr.v, cb.v>>)]
                   /\ pc' = "Recomposed"
                   /\ UNCHANGED error
              ELSE /\ pc' = "Failed"
                   /\ error' = "ShapeMismatch"
                   /\ UNCHANGED <<HR_image_YCrCb, HR_image_f>>
    /\ UNCHANGED <<disk, gui, call, result, rt, model, full_image, imgYCbCr,
                   LR_input_, predicted, Y, HR_image>>

\* HR_image = (HR_image * 255.0).clip(0, 255).astype(np.uint8)
finalize ==
    /\ pc = "Recomposed"
    /\ HR_image' = [h |-> HR_image_f.h, w |-> HR_image_f.w,
                    px |-> [i \in 1..3 |-> to_display(HR_image_f.px[i])]]
    /\ pc' = "Finalized"
    /\ UNCHANGED <<disk, gui, call, result, rt, error, model, full_image, imgYCbCr,
                   LR_input_, predicted, Y, Cr, Cb, HR_image_YCrCb, HR_image_f>>

\* an exception leaves the procedure: nothing is returned
raise_exception ==
    /\ pc = "Failed"
    /\ pc' = "Idle"
    /\ ClearLocals
    /\ UNCHANGED <<disk, gui, call, error, result, rt>>

Pipeline ==
    \/ load_model
    \/ cv2_imread
    \/ decompose
    \/ prepare_luma
    \/ predict
    \/ recompose
    \/ finalize
    \/ raise_exception

\* ------------------------------------------------ the procedures called directly
call_predict ==
    /\ \E f \in STRATEGIES, p \in Paths, k \in 1..MaxFactor : Enter(f, p, k)
    /\ UNCHANGED gui

\* return full_image, HR_image
return_result ==
    /\ pc = "Finalized"
    /\ result' = [original |-> full_image, upscaled |-> HR_image]
    /\ pc' = "Idle"
    /\ ClearLocals
    /\ UNCHANGED <<disk, gui, call, error, rt>>

Next ==
    \/ call_predict
    \/ Pipeline
    \/ return_result

Spec == Init /\ [][Next]_vars

\* --------------------------------------------------------- SuperResolutionApp
\* display_image(upscaled_image): figure.clear(), then both subplots; cvtColor
\* of a None image raises after the figure was cleared
display_image(path, upscaled_image) ==
    IF imread(disk, path).h = 0
    THEN EmptyFigure
    ELSE [low |-> Shape(imread(disk, path)), high |-> Shape(upscaled_image)]

\* choose_image: file_path is "" when the dialog is cancelled
choose_image ==
    /\ pc = "Idle"
    /\ event' = "choose_image"
    /\ \E file_path \in Paths \cup {NoPath} :
          IF file_path # NoPath
          THEN /\ image_path' = file_path
               /\ figure' = display_image(file_path, NoImage)
          ELSE UNCHANGED <<image_path, figure>>
    /\ UNCHANGED <<disk, selector, pc, call, locals, error, result, rt>>

\* the read-only combobox: the user selects one of MODELS
select_model ==
    /\ pc = "Idle"
    /\ event' = "select_model"
    /\ \E m \in MODELS : selector' = m
    /\ UNCHANGED <<disk, image_path, figure, pc, call, locals, error, result, rt>>

\* upscale_image, up to the call of a predict procedure or the warning
upscale_image ==
    /\ pc = "Idle"
    /\ event' = "upscale_image"
    /\ UNCHANGED <<image_path, selector, figure>>
    /\ IF image_path # NoPath
       THEN IF Dispatch(selector) # "none"
            THEN Enter(Dispatch(selector), image_path, DefaultFactor)
            ELSE /\ error' = "UnknownStrategy"
                 /\ UNCHANGED <<disk, pc, call, locals, result, rt>>
       ELSE /\ error' = "NoImage"
            /\ UNCHANGED <<disk, pc, call, locals, result, rt>>

\* upscale_image after the procedure returned: self.display_image(upscaled_image)
upscale_image_display ==
    /\ pc = "Finalized"
    /\ figure' = display_image(image_path, HR_image)
    /\ pc' = "Idle"
    /\ ClearLocals
    /\ UNCHANGED <<disk, image_path, selector, event, call, error, result, rt>>

NextApp ==
    \/ choose_image
    \/ select_model
    \/ upscale_image
    \/ Pipeline
    \/ upscale_image_display

SpecApp == Init /\ [][NextApp]_vars

\* ------------------------------------------------------ colour round trip
RTValues == {(i * ONE) \div RTGrid : i \in 0..RTGrid}

InitColor ==
    /\ InitDisk /\ InitGui /\ InitPipeline
    /\ rt_pc = "x"
    /\ rt_x \in {<<b, g, r>> : b \in RTValues, g \in RTValues, r \in RTValues}
    /\ rt_planes = NoPx
    /\ rt_back = NoPx

rt_toLumaChroma ==
    /\ rt_pc = "x"
    /\ rt_planes' = toLumaChroma(rt_x)
    /\ rt_pc' = "planes"
    /\ UNCHANGED <<disk, gui, pc, call, locals, error, result, rt_x, rt_back>>

rt_fromLumaChroma ==
    /\ rt_pc = "planes"
    /\ rt_back' = fromLumaChroma(rt_planes)
    /\ rt_pc' = "back"
    /\ UNCHANGED <<disk, gui, pc, call, locals, error, result, rt_x, rt_planes>>

NextColor ==
    \/ rt_toLumaChroma
    \/ rt_fromLumaChroma

SpecColor == InitColor /\ [][NextColor]_vars

\* ------------------------------------------------------------------ claims
Readable(p) == p \in Paths /\ disk[p].h # 0
Unreadable(p) == p \in Paths /\ disk[p].h = 0
AfterInference == {"Inferred", "Recomposed", "Finalized"}
Recombined == {"Recomposed", "Finalized"}
Tolerance == ONE \div 1000
Abs(x) == IF x < 0 THEN 0 - x ELSE x

\* C1: in edsr_predict the Cr and Cb planes are resampled to exactly the shape
\* the backend returned for the luma plane, whatever that shape is, so the
\* concatenation never fails on a shape mismatch and the upscaled image has
\* the backend's shape.
EdsrChromaMatchesLuma ==
    fn = "edsr" =>
        /\ pc \in Recombined =>
              /\ Shape(Cr) = Shape(predicted)
              /\ Shape(Cb) = Shape(predicted)
              /\ Shape(HR_image_YCrCb) = Shape(predicted)
        /\ pc = "Finalized" => Shape(HR_image) = Shape(predicted)
        /\ pc = "Failed" => error # "ShapeMismatch"

\* an edsr run that finished on a backend shape that is neither square nor
\* factor * original
EdsrOddShapeFinalized ==
    /\ fn = "edsr"
    /\ pc = "Finalized"
    /\ predicted.h # predicted.w
    /\ predicted.h # full_image.h * upscale_factor
    /\ Shape(HR_image) = Shape(predicted)

\* C2: a srcnn_predict or vdsr_predict call that returns, returns an upscaled
\* image of shape (h * f) x (w * f) and the original of shape h x w.
PreUpscaledDimensionLaw ==
    fn \in PreUpscaledLuma =>
        /\ pc = "Finalized" =>
              /\ HR_image.h = disk[path_arg].h * upscale_factor
              /\ HR_image.w = disk[path_arg].w * upscale_factor
              /\ full_image = disk[path_arg]
        /\ (pc = "Idle" /\ result # NoResult) =>
              /\ result.upscaled.h = disk[path_arg].h * upscale_factor
              /\ result.upscaled.w = disk[path_arg].w * upscale_factor
              /\ result.original = disk[path_arg]

\* a returned pair for a non-square image upscaled by more than 1
PreUpscaledReturned ==
    /\ fn \in PreUpscaledLuma
    /\ pc = "Idle"
    /\ result # NoResult
    /\ upscale_factor > 1
    /\ result.original.h # result.original.w

\* C3: when the backend of srcnn_predict or vdsr_predict returns a luma plane
\* whose shape differs from the plane it was given, the run fails with the
\* shape mismatch error: it never recombines planes and returns no image.
ShapeMismatchDetected ==
    (fn \in PreUpscaledLuma /\ predicted # NoPlane
        /\ Shape(predicted) # Shape(LR_input_)) =>
        /\ pc \in {"Inferred", "Failed"}
        /\ pc = "Failed" => error = "ShapeMismatch"
        /\ HR_image_YCrCb = NoImage
        /\ HR_image = NoImage
        /\ result = NoResult

\* a run that failed because the backend changed the width only
ShapeMismatchFailed ==
    /\ fn \in PreUpscaledLuma
    /\ pc = "Failed"
    /\ error = "ShapeMismatch"
    /\ predicted.h = LR_input_.h
    /\ predicted.w # LR_input_.w

\* C4 as stated: edsr_predict hands the backend the luma plane at its native
\* shape h x w.
EdsrLumaNative ==
    (fn = "edsr" /\ pc \in {"LumaPrepared"} \cup AfterInference) =>
        Shape(LR_input_) = Shape(full_image)

\* C4: edsr_predict hands the backend the luma plane resampled to
\* (h * f) x (w * f), as the other two procedures do.
EdsrLumaPreUpscaled ==
    (fn = "edsr" /\ pc \in {"LumaPrepared"} \cup AfterInference) =>
        /\ LR_input_.h = disk[path_arg].h * upscale_factor
        /\ LR_input_.w = disk[path_arg].w * upscale_factor

\* the edsr backend was fed a plane larger than the image
EdsrFedUpscaled ==
    /\ fn = "edsr"
    /\ pc = "Inferred"
    /\ upscale_factor > 1
    /\ LR_input_.h > full_image.h

\* C5: with an image chosen, pressing Upscale while the selector holds anything
\* but "srcnn", "edsr", "vdsr" reports the unknown-model warning, enters no
\* predict procedure and leaves the figure as it was.
UnknownStrategyRejected ==
    [][(pc = "Idle" /\ event' = "upscale_image" /\ image_path # NoPath
           /\ selector \notin STRATEGIES) =>
         (error' = "UnknownStrategy" /\ pc' = "Idle"
           /\ UNCHANGED <<figure, call, locals, result>>)]_vars

\* "srgan" was rejected while an upscaled image was on display
SrganRejected ==
    /\ event = "upscale_image"
    /\ selector = "srgan"
    /\ error = "UnknownStrategy"
    /\ pc = "Idle"
    /\ figure.high # NoShape

\* C6 as stated: a run on an unreadable source fails with the decode error,
\* whatever the state of the backend.
UnreadableFailsWithDecodeError ==
    (pc = "Failed" /\ Unreadable(path_arg)) => error = "DecodeError"

\* C6: a run on an unreadable source never reaches Decomposed and returns
\* nothing; it fails with the decode error when the backend loaded, and with
\* BackendUnavailable when load_model, which runs first, failed.
UnreadableNeverDecomposed ==
    Unreadable(path_arg) =>
        /\ pc \in {"Idle", "Called", "ModelLoaded", "Failed"}
        /\ imgYCbCr = NoImage
        /\ result = NoResult
        /\ pc = "Failed" =>
              \/ error = "DecodeError" /\ model # "none"
              \/ error = "BackendUnavailable" /\ model = "none"

\* a run on the unreadable file that failed to decode
UnreadableFailed ==
    /\ Unreadable(path_arg)
    /\ pc = "Failed"
    /\ error = "DecodeError"

\* C7: every channel of the finalized image is an integer in [0,255], and a
\* value outside [0,1] before scaling saturates (255 above, 0 below) instead of
\* wrapping around.
RangeInvariant ==
    /\ pc = "Finalized" =>
          \A i \in 1..3 :
              /\ HR_image.px[i] \in 0..255
              /\ HR_image_f.px[i] >= ONE => HR_image.px[i] = 255
              /\ HR_image_f.px[i] <= 0 => HR_image.px[i] = 0
    /\ \A i \in 1..3 : result.upscaled.px[i] \in 0..255

\* a finalized image whose backend value and one channel before scaling were
\* above 1
RangeSaturated ==
    /\ pc = "Finalized"
    /\ predicted.v > ONE
    /\ \E i \in 1..3 : HR_image_f.px[i] > ONE + Tolerance /\ HR_image.px[i] = 255

\* C8: converting a normalized pixel to luma/chroma and back gives the pixel
\* again within 1e-3 per channel.
ColorRoundTrip ==
    rt_pc = "back" => \A i \in 1..3 : Abs(rt_back[i] - rt_x[i]) <= Tolerance

\* the round trip of a saturated colour, which does not come back exactly
ColorRoundTripDone ==
    /\ rt_pc = "back"
    /\ rt_x = <<ONE, 0, 0>>
    /\ rt_planes[3] > HALF
    /\ rt_back # rt_x

\* C9 as stated: in every procedure the Y plane that is concatenated lies in
\* [0,1].
LumaClippedEverywhere ==
    pc \in Recombined => HR_image_YCrCb.px[1] \in 0..ONE

\* C9: only edsr_predict clips the backend's luma to [0,1] before the
\* concatenation; srcnn_predict and vdsr_predict concatenate it as returned.
LumaClippedOnlyInEdsr ==
    pc \in Recombined =>
        /\ fn = "edsr" =>
              /\ HR_image_YCrCb.px[1] \in 0..ONE
              /\ HR_image_YCrCb.px[1] = Clip(predicted.v, 0, ONE)
        /\ fn \in PreUpscaledLuma => HR_image_YCrCb.px[1] = predicted.v

\* an edsr run whose backend returned a value above 1
EdsrClipped ==
    /\ fn = "edsr"
    /\ pc = "Recomposed"
    /\ predicted.v > ONE
    /\ HR_image_YCrCb.px[1] = ONE

\* C10 as stated: the backend is loaded only once the image is decoded and
\* decomposed.
BackendLoadedAfterDecompose ==
    model # "none" => imgYCbCr # NoImage

OrderedSteps ==
    { <<"Idle", "Called">>, <<"Called", "ModelLoaded">>, <<"Called", "Failed">>,
      <<"ModelLoaded", "Decoded">>, <<"ModelLoaded", "Failed">>,
      <<"Decoded", "Decomposed">>, <<"Decomposed", "LumaPrepared">>,
      <<"LumaPrepared", "Inferred">>, <<"Inferred", "Recomposed">>,
      <<"Inferred", "Failed">>, <<"Recomposed", "Finalized">>,
      <<"Finalized", "Idle">>, <<"Failed", "Idle">> }

\* C10: a run steps through Called, ModelLoaded, Decoded, Decomposed,
\* LumaPrepared, Inferred, Recomposed, Finalized in that order; the backend is
\* loaded in the first step, before the image is read, and only inference
\* waits for the decoded, decomposed and prepared luma plane.
StepOrderLoadFirst ==
    [][/\ pc' # pc => <<pc, pc'>> \in OrderedSteps
       /\ pc' \in {"ModelLoaded", "Decoded", "Decomposed", "LumaPrepared"}
                 \cup AfterInference => model' = ModelPath(fn')
       /\ (predicted' # predicted /\ predicted' # NoPlane) =>
             /\ pc = "LumaPrepared"
             /\ imgYCbCr # NoImage
             /\ LR_input_ # NoPlane]_vars

\* the image was read with the backend already loaded and nothing decomposed
LoadedBeforeDecompose ==
    /\ pc = "Decoded"
    /\ model = ModelPath(fn)
    /\ imgYCbCr = NoImage
====
